---------------------------- MODULE Spec2Model ----------------------------
(***************************************************************************)
(* Incremental RPC linking of golem-cli: link_rpc drives, per selected     *)
(* component, classify -> marker -> up-to-date check -> copy/compose ->    *)
(* record.  The task result marker store and the up-to-date oracle are     *)
(* modelled from their specification; link_rpc is modelled from            *)
(* golem-cli/src/app/build/link_rpc.rs.                                    *)
(***************************************************************************)
EXTENDS Integers, Sequences, FiniteSets, TLC

(* ------------------------------ bounds -------------------------------- *)

\* longest declared dependency list of a component
MaxDeps == 2

\* number of events the environment of link_rpc produces: a change of the
\* declared dependencies, of the force flag, of a file or of the time between
\* two runs, a failure of a copy or a composition, a termination of the process
MaxChanges == 3

\* latest modification time of a file the up-to-date oracle is asked about
MaxTime == 2

\* longest list of paths the up-to-date oracle is asked about
MaxPaths == 2

\* number of LogIndent guards the caller of link_rpc holds
MaxIndents == 1

\* number of profiles of a stored config, the built-in two apart
MaxProfiles == 1

\* number of live LogOutput guards of a thread
MaxGuards == 2

(* ------------------------- application model -------------------------- *)

\* the components of the application
Components == {"api", "billing"}

\* the components other components may declare a dependency on
DependencyNames == {"audit", "billing"}

\* lexicographic order of the names (Ord of String)
NameOrder == <<"api", "audit", "billing">>

NameRank(n) == CHOOSE k \in 1..Len(NameOrder) : NameOrder[k] = n

StaticWasmRpc == "StaticWasmRpc"
DynamicWasmRpc == "DynamicWasmRpc"
DependencyType == {StaticWasmRpc, DynamicWasmRpc}

\* Ord of DependencyType used as the tie-break of DependentComponent's Ord
TypeRank(t) == IF t = DynamicWasmRpc THEN 1 ELSE 2

\* a declared dependency; no component depends on itself
DependentComponent(c) ==
    [name : DependencyNames \ {c}, dep_type : DependencyType]

\* every dependency list a component can declare
DeclaredLists(c) ==
    UNION {[1..n -> DependentComponent(c)] : n \in 0..MaxDeps}

\* every ordered selection of distinct components
Selections ==
    {s \in UNION {[1..n -> Components] : n \in 0..Cardinality(Components)} :
        \A p, q \in 1..Len(s) : p # q => s[p] # s[q]}

Range(s) == {s[k] : k \in 1..Len(s)}

NoFile == [exists |-> FALSE]
NoPrevious == [ret |-> "none"]
NoRecord == [exists |-> FALSE]

VARIABLES
    deps,            \* component -> declared dependency list
    force,           \* ctx.config.skip_up_to_date_checks
    clock,           \* filesystem time
    component_wasm,  \* component -> mtime of its unlinked binary
    client_wasm,     \* dependency name -> mtime of its client stub
    linked_wasm,     \* component -> linked output file, or NoFile
    store,           \* component -> stored marker record, or NoRecord
    pc,              \* position of link_rpc: idle, loop, check, act, result, returned
    selected,        \* the selection of the run in progress
    i,               \* index of the component being processed
    marker,          \* the TaskResultMarker of the component being processed
    action,          \* the action in flight and its result
    log,             \* events of the run in progress
    ret,             \* result of the last run
    last_attempt,    \* component -> what its last attempt did, if nothing
                     \* it depends on changed since
    previous,        \* the previous run of link_rpc, if nothing changed since
    changes,         \* events of the environment so far
    query,           \* the call of a pure function alone, with its result
    log_state,       \* LOG_STATE: indents, calculated_indent, output
    indent_guards,   \* number of live LogIndent guards of the process
    entry_indents,   \* the indents link_rpc was entered with
    output_guards,   \* thread -> its live LogOutput guards, oldest first
    creating,        \* thread -> the LogOutput::new in progress, if any
    initial_output,  \* the output when no LogOutput guard existed
    config_file,     \* config.json of the config directory, or NoConfigFile
    config_result    \* the last call of Config and what it returned

vars == <<deps, force, clock, component_wasm, client_wasm, linked_wasm, store,
          pc, selected, i, marker, action, log, ret, last_attempt,
          previous, changes, query, log_state, indent_guards, entry_indents,
          output_guards, creating, initial_output, config_file, config_result>>

app_vars == <<deps, force>>
file_vars == <<component_wasm, client_wasm, linked_wasm>>
run_vars == <<pc, selected, i, marker, action, log, ret>>
oracle_vars == <<query>>
indent_vars == <<log_state, indent_guards, entry_indents>>
output_vars == <<output_guards, creating, initial_output>>
config_vars == <<config_file, config_result>>


(* --------------------------- artifact paths --------------------------- *)

\* ctx.application.client_wasm(name)
client_wasm_path(name) == [kind |-> "client_wasm", of |-> name]

\* ctx.application.component_wasm(component_name, profile)
component_wasm_path(c) == [kind |-> "component_wasm", of |-> c]

\* ctx.application.component_linked_wasm(component_name)
component_linked_wasm_path(c) == [kind |-> "linked_wasm", of |-> c]

\* the unlinked binaries and the client stubs are products of earlier build
\* steps and are present; only a linked output can be missing
exists(path) ==
    IF path.kind = "linked_wasm" THEN linked_wasm[path.of].exists ELSE TRUE

\* modification time of an existing file
mtime(path) ==
    CASE path.kind = "client_wasm" -> client_wasm[path.of]
      [] path.kind = "component_wasm" -> component_wasm[path.of]
      [] path.kind = "linked_wasm" -> linked_wasm[path.of].mtime

\* content of an unlinked binary: one version per write
wasm_content(c) == [wasm |-> c, version |-> component_wasm[c]]

(* ---------------------- dependency classification --------------------- *)

\* Ord of DependentComponent: by name, then by type
DepLess(a, b) ==
    \/ NameRank(a.name) < NameRank(b.name)
    \/ a.name = b.name /\ TypeRank(a.dep_type) < TypeRank(b.dep_type)

RECURSIVE BTreeSetIter(_)
\* iteration order of a BTreeSet: ascending
BTreeSetIter(S) ==
    IF S = {} THEN <<>>
    ELSE LET least == CHOOSE a \in S : \A b \in S \ {a} : DepLess(a, b)
         IN <<least>> \o BTreeSetIter(S \ {least})

\* a variant that keeps the dependencies of every type
static_filter_any_type(dep) == dep.dep_type \in DependencyType

\* the filter of link_rpc that keeps the dependencies of one type
static_filter(dep) == dep.dep_type = StaticWasmRpc

dynamic_filter(dep) == dep.dep_type = DynamicWasmRpc

\* static_dependencies: the declared list filtered and collected in a BTreeSet
static_dependencies(declared) ==
    {declared[k] : k \in {j \in 1..Len(declared) : static_filter(declared[j])}}

\* dynamic_dependencies
dynamic_dependencies(declared) ==
    {declared[k] : k \in {j \in 1..Len(declared) : dynamic_filter(declared[j])}}

\* names of a dependency set in iteration order
DepNames(S) ==
    LET iter == BTreeSetIter(S)
    IN  [k \in 1..Len(iter) |-> iter[k].name]

RECURSIVE client_wasms_as_declared(_)
\* a variant that maps the declared list, in its order and with its
\* duplicates, instead of the set
client_wasms_as_declared(declared) ==
    IF declared = <<>> THEN <<>>
    ELSE IF static_filter(Head(declared))
         THEN <<client_wasm_path(Head(declared).name)>>
                \o client_wasms_as_declared(Tail(declared))
         ELSE client_wasms_as_declared(Tail(declared))

\* client_wasms: one client stub per static dependency, in iteration order
client_wasms(declared) ==
    LET iter == BTreeSetIter(static_dependencies(declared))
    IN  [k \in 1..Len(iter) |-> client_wasm_path(iter[k].name)]

(* ------------------------- task result marker ------------------------- *)

\* a variant that hashes the dependencies alone
LinkRpcMarkerHash_dependencies_only(c, declared) ==
    [component_name |-> "", dependencies |-> DepNames(static_dependencies(declared))]

\* a variant that hashes the component name alone
LinkRpcMarkerHash_name_only(c, declared) ==
    [component_name |-> c, dependencies |-> <<>>]

\* LinkRpcMarkerHash { component_name, dependencies }: the hashed input; the
\* hash is collision free on the inputs of the model, so the canonical input
\* stands for its hash
LinkRpcMarkerHash(c, declared) ==
    [component_name |-> c,
     dependencies |-> DepNames(static_dependencies(declared))]

\* is_up_to_date of the marker store: a record exists for this step identity
\* with exactly this input hash and the outcome success
marker_is_up_to_date(record, hash) ==
    /\ record.exists
    /\ record.hash = hash
    /\ record.outcome = "success"

\* TaskResultMarker::new: the marker of a component, with what the store
\* holds for it when it is created
TaskResultMarker_new(c, declared) ==
    LET hash == LinkRpcMarkerHash(c, declared)
    IN  [component |-> c,
         hash |-> hash,
         up_to_date |-> marker_is_up_to_date(store[c], hash)]

\* record: the outcome replaces any prior record of the step identity
marker_record(st, m, outcome) ==
    [st EXCEPT ![m.component] =
        [exists |-> TRUE, hash |-> m.hash, outcome |-> outcome]]

(* -------------------------- up-to-date oracle ------------------------- *)

Max(S) == CHOOSE x \in S : \A y \in S : y <= x
Min(S) == CHOOSE x \in S : \A y \in S : x <= y

\* should_skip: never when forced or when the marker is stale; never when an
\* output is missing; never when an input is strictly newer than an output
is_up_to_date(skip_check, inputs, outputs) ==
    /\ ~skip_check
    /\ \A k \in 1..Len(outputs) : exists(outputs[k])
    /\ \/ Len(inputs) = 0
       \/ Len(outputs) = 0
       \/ ~(Max({mtime(inputs[k]) : k \in 1..Len(inputs)})
              > Min({mtime(outputs[k]) : k \in 1..Len(outputs)}))

(* ------------------------ link_rpc, per component --------------------- *)

\* a variant that leaves the marker out of the check
skip_up_to_date_check_without_marker(m) == force

\* a variant that leaves the force flag out of the check
skip_up_to_date_check_without_force(m) == ~m.up_to_date

\* a variant that drops the negation of the marker's freshness
skip_up_to_date_check_not_negated(m) == force \/ m.up_to_date

\* the first argument of is_up_to_date in link_rpc
skip_up_to_date_check(m) == force \/ ~m.up_to_date

\* the sources closure: the client stubs, then the unlinked binary
link_inputs(c, declared) ==
    Append(client_wasms(declared), component_wasm_path(c))

\* a variant that names the unlinked binary as the target
link_outputs_unlinked(c) == <<component_wasm_path(c)>>

\* the targets closure
link_outputs(c) == <<component_linked_wasm_path(c)>>

\* the condition of the `if is_up_to_date(...)` of link_rpc
link_is_up_to_date(c, declared, m) ==
    is_up_to_date(skip_up_to_date_check(m),
                  link_inputs(c, declared), link_outputs(c))

\* a variant that copies only when no dependency of any type is declared
copy_without_linking_no_deps(declared) == Len(declared) = 0

\* the branch of the action: copy without linking, or compose
copy_without_linking(declared) == static_dependencies(declared) = {}

\* a variant that drops the result instead of returning it
propagates_never(result) == result = "Err" /\ result = "Ok"

\* the `?` after task_result_marker.result(...): an error ends the run
propagates(result) == result = "Err"

\* a variant that walks the selection from its end
component_at_reversed(sel, k) == sel[Len(sel) + 1 - k]

\* the component the loop processes at position k of the selection
component_at(sel, k) == sel[k]

\* a variant that stays at the component
next_index_same(k) == k

\* what the loop does after a component: the next one
next_index(k) == k + 1

NoAction == [op |-> "none"]
NoQuery == [op |-> "none"]
NoMarker == [component |-> "none"]

Event(ev, c) == [ev |-> ev, component |-> c]

\* the component being processed
cur == component_at(selected, i)

(* ------------------------------ log state ----------------------------- *)

\* Output
Output == {"Stdout", "Stderr", "None", "TracingDebug"}

\* Option<String>: the custom prefix of an indentation level
None == [some |-> FALSE]
Some(p) == [some |-> TRUE, value |-> p]

\* the prefix LogIndent::prefix is called with; a string is the sequence of
\* its characters
CustomPrefixes == {<<"-", ">", " ">>}

\* LogState::new
LogState_new ==
    [indents |-> <<>>, calculated_indent |-> <<>>, output |-> "Stdout"]

RECURSIVE push_strs(_)
\* the loop of regen_indent_prefix: push_str per level, two spaces for a
\* level without custom prefix
push_strs(indents) ==
    IF indents = <<>> THEN <<>>
    ELSE (IF Head(indents).some THEN Head(indents).value ELSE <<" ", " ">>)
            \o push_strs(Tail(indents))

\* a variant that keeps the prefix computed before
regen_indent_prefix_kept(state) == state

\* regen_indent_prefix
regen_indent_prefix(state) ==
    [state EXCEPT !.calculated_indent = push_strs(state.indents)]

\* inc_indent
inc_indent(state, custom_prefix) ==
    regen_indent_prefix([state EXCEPT !.indents = Append(@, custom_prefix)])

\* Vec::pop: the vector without its last element, if it has one
pop(v) == IF v = <<>> THEN v ELSE SubSeq(v, 1, Len(v) - 1)

\* dec_indent
dec_indent(state) ==
    regen_indent_prefix([state EXCEPT !.indents = pop(@)])

\* a variant that leaves the output as it is
set_output_ignored(state, output) == state

\* set_output
set_output(state, output) == [state EXCEPT !.output = output]

\* the threads of the process that write the log
Threads == {"main", "worker"}

NoCreating == [step |-> "none"]
NoConfigFile == [exists |-> FALSE]
NoCall == [op |-> "none"]

\* a process that has not used the log state yet, on a config directory
\* without config.json
InitAside ==
    /\ log_state = LogState_new
    /\ indent_guards = 0
    /\ entry_indents = <<>>
    /\ output_guards = [t \in Threads |-> <<>>]
    /\ creating = [t \in Threads |-> NoCreating]
    /\ initial_output = "Stdout"
    /\ config_file = NoConfigFile
    /\ config_result = NoCall

(* ------------------------------ initial ------------------------------- *)

Init ==
    /\ deps = [c \in Components |-> <<>>]
    /\ force = FALSE
    /\ clock = 0
    /\ component_wasm = [c \in Components |-> 0]
    /\ client_wasm = [d \in DependencyNames |-> 0]
    /\ linked_wasm = [c \in Components |-> NoFile]
    /\ store = [c \in Components |-> NoRecord]
    /\ pc = "idle"
    /\ selected = <<>>
    /\ i = 1
    /\ marker = NoMarker
    /\ action = NoAction
    /\ log = <<>>
    /\ ret = "none"
    /\ last_attempt = [c \in Components |-> "none"]
    /\ previous = NoPrevious
    /\ changes = 0
    /\ query = NoQuery
    /\ InitAside

(* ---------------------- the world between two runs -------------------- *)

\* time passes
Tick ==
    /\ pc = "idle"
    /\ changes < MaxChanges
    /\ changes' = changes + 1
    /\ clock' = clock + 1
    /\ UNCHANGED <<oracle_vars, output_vars, config_vars, indent_vars, app_vars, file_vars, store, run_vars, last_attempt, previous>>

\* the user switches the global force flag
SetForce ==
    /\ pc = "idle"
    /\ changes < MaxChanges
    /\ changes' = changes + 1
    /\ force' = ~force
    /\ previous' = NoPrevious
    /\ UNCHANGED <<oracle_vars, output_vars, config_vars, indent_vars, deps, clock, file_vars, store, run_vars, last_attempt>>

\* the dependency list without its entry at position k
RemoveAt(declared, k) ==
    [j \in 1..(Len(declared) - 1) |-> IF j < k THEN declared[j] ELSE declared[j + 1]]

\* the declared dependencies of a component are replaced
EditDeps(c, declared) ==
    /\ pc = "idle"
    /\ changes < MaxChanges
    /\ changes' = changes + 1
    /\ deps' = [deps EXCEPT ![c] = declared]
    /\ previous' = NoPrevious
    /\ last_attempt' =
         IF static_dependencies(declared) = static_dependencies(deps[c])
         THEN last_attempt
         ELSE [last_attempt EXCEPT ![c] = "none"]
    /\ UNCHANGED <<oracle_vars, output_vars, config_vars, indent_vars, force, clock, file_vars, store, run_vars>>

\* the user declares one more dependency of a component
AddDependency(c, dep) ==
    /\ Len(deps[c]) < MaxDeps
    /\ EditDeps(c, Append(deps[c], dep))

\* the user removes a declared dependency of a component
RemoveDependency(c, k) ==
    /\ k \in 1..Len(deps[c])
    /\ EditDeps(c, RemoveAt(deps[c], k))

\* an earlier build step rewrites the unlinked binary of a component
TouchComponentWasm(c) ==
    /\ pc = "idle"
    /\ changes < MaxChanges
    /\ changes' = changes + 1
    /\ component_wasm[c] < clock
    /\ component_wasm' = [component_wasm EXCEPT ![c] = clock]
    /\ previous' = NoPrevious
    /\ last_attempt' = [last_attempt EXCEPT ![c] = "none"]
    /\ UNCHANGED <<oracle_vars, output_vars, config_vars, indent_vars, app_vars, clock, client_wasm, linked_wasm, store, run_vars>>

\* an earlier build step rewrites the client stub of a dependency
TouchClientWasm(d) ==
    /\ pc = "idle"
    /\ changes < MaxChanges
    /\ changes' = changes + 1
    /\ client_wasm[d] < clock
    /\ client_wasm' = [client_wasm EXCEPT ![d] = clock]
    /\ previous' = NoPrevious
    /\ last_attempt' =
         [c \in Components |->
            IF \E dep \in static_dependencies(deps[c]) : dep.name = d
            THEN "none" ELSE last_attempt[c]]
    /\ UNCHANGED <<oracle_vars, output_vars, config_vars, indent_vars, app_vars, clock, component_wasm, linked_wasm, store, run_vars>>

\* somebody deletes the linked output of a component
RemoveLinkedWasm(c) ==
    /\ pc = "idle"
    /\ changes < MaxChanges
    /\ changes' = changes + 1
    /\ linked_wasm[c].exists
    /\ linked_wasm' = [linked_wasm EXCEPT ![c] = NoFile]
    /\ previous' = NoPrevious
    /\ last_attempt' = [last_attempt EXCEPT ![c] = "none"]
    /\ UNCHANGED <<oracle_vars, output_vars, config_vars, indent_vars, app_vars, clock, component_wasm, client_wasm, store, run_vars>>

(* ------------------------------ link_rpc ------------------------------ *)

\* LogIndent::new: one more level, without custom prefix
LogIndent_new ==
    /\ log_state' = inc_indent(log_state, None)
    /\ indent_guards' = indent_guards + 1

\* LogIndent::prefix: one more level, with a custom prefix
LogIndent_prefix(p) ==
    /\ log_state' = inc_indent(log_state, Some(p))
    /\ indent_guards' = indent_guards + 1

\* drop of a LogIndent guard: the last level goes
LogIndent_drop ==
    /\ log_state' = dec_indent(log_state)
    /\ indent_guards' = indent_guards - 1

\* the log state of a process that starts
LogStateOfNewProcess ==
    /\ log_state' = LogState_new
    /\ indent_guards' = 0
    /\ entry_indents' = <<>>

\* link_rpc is called with a selection
LinkRpcStart(sel) ==
    /\ pc = "idle"
    /\ UNCHANGED changes
    /\ pc' = "loop"
    /\ selected' = sel
    /\ i' = 1
    /\ log' = <<>>
    /\ ret' = "running"
    /\ previous' = IF previous.ret # "none" /\ previous.selected = sel
                   THEN previous ELSE NoPrevious
    /\ LogIndent_new
    /\ entry_indents' = log_state.indents
    /\ UNCHANGED <<oracle_vars, output_vars, config_vars, app_vars, clock, file_vars, store, marker, action, last_attempt>>

\* the components a run copied or composed
Linked(events) ==
    {events[k].component : k \in {j \in 1..Len(events) : events[j].ev \in {"copy", "compose"}}}

\* the loop is over: Ok(())
LinkRpcOk ==
    /\ pc = "loop"
    /\ i > Len(selected)
    /\ pc' = "returned"
    /\ ret' = "Ok"
    /\ previous' = [ret |-> "Ok", selected |-> selected, failed_at |-> 0,
                    linked |-> Linked(log)]
    /\ LogIndent_drop
    /\ UNCHANGED entry_indents
    /\ UNCHANGED <<oracle_vars, output_vars, config_vars, app_vars, clock, file_vars, store, selected, i, marker, action,
                   log, last_attempt, changes>>

\* the head of the loop body: classify, resolve the paths, create the marker
NewMarker ==
    /\ pc = "loop"
    /\ i <= Len(selected)
    /\ marker' = TaskResultMarker_new(cur, deps[cur])
    /\ log' = Append(log, Event("marker_new", cur))
    /\ pc' = "check"
    /\ UNCHANGED <<oracle_vars, output_vars, config_vars, indent_vars, app_vars, clock, file_vars, store, selected, i, action, ret,
                   last_attempt, changes,
                   previous>>

\* is_up_to_date(...) is true: log and continue
Skip ==
    /\ pc = "check"
    /\ link_is_up_to_date(cur, deps[cur], marker)
    /\ log' = Append(log, Event("skip", cur))
    /\ last_attempt' = [last_attempt EXCEPT ![cur] = "done"]
    /\ marker' = NoMarker
    /\ i' = next_index(i)
    /\ pc' = "loop"
    /\ UNCHANGED <<oracle_vars, output_vars, config_vars, indent_vars, app_vars, clock, file_vars, store, selected, action, ret, changes,
                   previous>>

\* is_up_to_date(...) is false: the copy or the composition starts
BeginAction ==
    /\ pc = "check"
    /\ ~link_is_up_to_date(cur, deps[cur], marker)
    /\ action' =
         IF copy_without_linking(deps[cur])
         THEN [op |-> "copy",
               from |-> component_wasm_path(cur),
               stubs |-> <<>>,
               to |-> component_linked_wasm_path(cur),
               result |-> "pending"]
         ELSE [op |-> "compose",
               from |-> component_wasm_path(cur),
               stubs |-> client_wasms(deps[cur]),
               to |-> component_linked_wasm_path(cur),
               result |-> "pending"]
    /\ log' = Append(log, Event(action'.op, cur))
    /\ pc' = "act"
    /\ IF copy_without_linking(deps[cur])
       THEN UNCHANGED <<log_state, indent_guards>>
       ELSE LogIndent_new
    /\ UNCHANGED entry_indents
    /\ UNCHANGED <<oracle_vars, output_vars, config_vars, app_vars, clock, file_vars, store, selected, i, marker, ret,
                   last_attempt, changes,
                   previous>>

\* what a completed copy or composition leaves at its destination
Produced(a) ==
    IF a.op = "copy"
    THEN [exists |-> TRUE, mtime |-> clock, content |-> wasm_content(a.from.of)]
    ELSE [exists |-> TRUE, mtime |-> clock,
          content |-> [primary |-> wasm_content(a.from.of),
                       stubs |-> [k \in 1..Len(a.stubs) |-> a.stubs[k].of]]]

\* what an interrupted or failed write leaves at its destination
Partial == [exists |-> TRUE, mtime |-> clock, content |-> [partial |-> TRUE]]

\* the copy or the composition completes
ActionSucceeds ==
    /\ pc = "act"
    /\ linked_wasm' = [linked_wasm EXCEPT ![action.to.of] = Produced(action)]
    /\ action' = [action EXCEPT !.result = "Ok"]
    /\ pc' = "result"
    /\ IF action.op = "compose"
       THEN LogIndent_drop
       ELSE UNCHANGED <<log_state, indent_guards>>
    /\ UNCHANGED entry_indents
    /\ UNCHANGED <<oracle_vars, output_vars, config_vars, app_vars, clock, component_wasm, client_wasm, store, selected, i,
                   marker, log, ret, last_attempt, changes,
                   previous>>

\* the copy or the composition fails; it may leave a partial output behind
ActionFails(partial) ==
    /\ pc = "act"
    /\ changes < MaxChanges
    /\ changes' = changes + 1
    /\ linked_wasm' =
         IF partial THEN [linked_wasm EXCEPT ![action.to.of] = Partial]
         ELSE linked_wasm
    /\ action' = [action EXCEPT !.result = "Err"]
    /\ pc' = "result"
    /\ IF action.op = "compose"
       THEN LogIndent_drop
       ELSE UNCHANGED <<log_state, indent_guards>>
    /\ UNCHANGED entry_indents
    /\ UNCHANGED <<oracle_vars, output_vars, config_vars, app_vars, clock, component_wasm, client_wasm, store, selected, i,
                   marker, log, ret, last_attempt,
                   previous>>

\* task_result_marker.result(...)?: the outcome is recorded, then an error
\* is returned and a success goes on with the next component
Result ==
    /\ pc = "result"
    /\ store' = marker_record(store, marker,
                              IF action.result = "Ok" THEN "success" ELSE "failure")
    /\ last_attempt' =
         [last_attempt EXCEPT ![cur] = IF action.result = "Ok" THEN "done" ELSE "failed"]
    /\ marker' = NoMarker
    /\ action' = NoAction
    /\ IF propagates(action.result)
       THEN /\ pc' = "returned"
            /\ ret' = "Err"
            /\ previous' = [ret |-> "Err", selected |-> selected, failed_at |-> i,
                            linked |-> Linked(log) \ {cur}]
            /\ UNCHANGED i
       ELSE /\ pc' = "loop"
            /\ i' = next_index(i)
            /\ UNCHANGED <<ret, previous>>
    /\ log' = Append(log, Event(IF action.result = "Ok" THEN "record_success"
                                                          ELSE "record_failure", cur))
    /\ IF propagates(action.result)
       THEN LogIndent_drop
       ELSE UNCHANGED <<log_state, indent_guards>>
    /\ UNCHANGED entry_indents
    /\ UNCHANGED <<oracle_vars, output_vars, config_vars, app_vars, clock, file_vars, selected, changes>>

\* the process exits after link_rpc returned
Exit ==
    /\ pc = "returned"
    /\ pc' = "idle"
    /\ selected' = <<>>
    /\ i' = 1
    /\ log' = <<>>
    /\ ret' = "none"
    /\ LogStateOfNewProcess
    /\ UNCHANGED <<oracle_vars, output_vars, config_vars, app_vars, clock, file_vars, store, marker, action, last_attempt,
                   previous, changes>>

\* the process is terminated during a run; an action in flight may leave a
\* partial output behind
Kill(partial) ==
    /\ pc \in {"loop", "check", "act", "result"}
    /\ changes < MaxChanges
    /\ changes' = changes + 1
    /\ partial => pc = "act"
    /\ linked_wasm' =
         IF partial THEN [linked_wasm EXCEPT ![action.to.of] = Partial]
         ELSE linked_wasm
    /\ last_attempt' =
         IF pc = "act" THEN [last_attempt EXCEPT ![cur] = "killed"]
         ELSE IF pc = "result" THEN [last_attempt EXCEPT ![cur] = "none"]
         ELSE last_attempt
    /\ pc' = "idle"
    /\ ret' = "none"
    /\ previous' = NoPrevious
    /\ selected' = <<>>
    /\ i' = 1
    /\ marker' = NoMarker
    /\ action' = NoAction
    /\ log' = <<>>
    /\ LogStateOfNewProcess
    /\ UNCHANGED <<oracle_vars, output_vars, config_vars, app_vars, clock, component_wasm, client_wasm, store>>

Next ==
    \/ Tick
    \/ SetForce
    \/ \E c \in Components : \E dep \in DependentComponent(c) : AddDependency(c, dep)
    \/ \E c \in Components : \E k \in 1..MaxDeps : RemoveDependency(c, k)
    \/ \E c \in Components : TouchComponentWasm(c)
    \/ \E d \in DependencyNames : TouchClientWasm(d)
    \/ \E c \in Components : RemoveLinkedWasm(c)
    \/ \E sel \in Selections : LinkRpcStart(sel)
    \/ LinkRpcOk
    \/ NewMarker
    \/ Skip
    \/ BeginAction
    \/ ActionSucceeds
    \/ \E partial \in BOOLEAN : ActionFails(partial)
    \/ Result
    \/ Exit
    \/ \E partial \in BOOLEAN : Kill(partial)

Spec == Init /\ [][Next]_vars

(* ------------------- link_rpc with marker I/O errors ------------------ *)

\* TaskResultMarker::new(...)? returns an error: the marker of the component
\* cannot be created or read
NewMarkerFails ==
    /\ pc = "loop"
    /\ i <= Len(selected)
    /\ changes < MaxChanges
    /\ changes' = changes + 1
    /\ log' = Append(log, Event("marker_new_failed", cur))
    /\ IF propagates("Err")
       THEN /\ pc' = "returned"
            /\ ret' = "Err"
            /\ marker' = NoMarker
       ELSE /\ pc' = "check"
            /\ ret' = ret
            /\ marker' = [component |-> cur,
                          hash |-> LinkRpcMarkerHash(cur, deps[cur]),
                          up_to_date |-> FALSE]
    /\ previous' = NoPrevious
    /\ IF propagates("Err")
       THEN LogIndent_drop
       ELSE UNCHANGED <<log_state, indent_guards>>
    /\ UNCHANGED entry_indents
    /\ UNCHANGED <<oracle_vars, output_vars, config_vars, app_vars, clock, file_vars, store, selected, i, action,
                   last_attempt>>

\* task_result_marker.result(...)? returns an error of the marker store: the
\* outcome of the completed action cannot be written; the prior record of
\* the component is kept or lost
ResultWriteFails(kept) ==
    /\ pc = "result"
    /\ changes < MaxChanges
    /\ changes' = changes + 1
    /\ store' = IF kept THEN store ELSE [store EXCEPT ![cur] = NoRecord]
    /\ last_attempt' = [last_attempt EXCEPT ![cur] = "none"]
    /\ log' = Append(log, Event(IF action.result = "Ok"
                                 THEN "write_failed_after_success"
                                 ELSE "write_failed_after_failure", cur))
    /\ marker' = NoMarker
    /\ action' = NoAction
    /\ IF propagates("Err")
       THEN /\ pc' = "returned"
            /\ ret' = "Err"
            /\ UNCHANGED i
       ELSE /\ pc' = "loop"
            /\ i' = next_index(i)
            /\ UNCHANGED ret
    /\ previous' = NoPrevious
    /\ IF propagates("Err")
       THEN LogIndent_drop
       ELSE UNCHANGED <<log_state, indent_guards>>
    /\ UNCHANGED entry_indents
    /\ UNCHANGED <<oracle_vars, output_vars, config_vars, app_vars, clock, file_vars, selected>>

NextFaults ==
    \/ Next
    \/ NewMarkerFails
    \/ \E kept \in BOOLEAN : ResultWriteFails(kept)

\* the steps of link_rpc that the running process takes by itself; a copy
\* or a composition in flight completes
LinkRpcStep ==
    \/ LinkRpcOk
    \/ NewMarker
    \/ Skip
    \/ BeginAction
    \/ ActionSucceeds
    \/ Result

\* link_rpc with marker I/O errors; a run that is not terminated goes on
SpecFaults == Init /\ [][NextFaults]_vars /\ WF_vars(LinkRpcStep)

(* ----------------------- the up-to-date oracle alone ------------------ *)

\* an existing file with a modification time
FileAt(t) == [exists |-> TRUE, mtime |-> t, content |-> [partial |-> TRUE]]

\* the lists of at most MaxPaths paths out of a set, from a shortest length
PathLists(paths, shortest) ==
    UNION {[1..n -> paths] : n \in shortest..MaxPaths}

\* should_skip(force, marker_is_stale, inputs, outputs): the oracle as
\* link_rpc calls it, the force flag and the staleness of the marker joined
\* into its first argument
should_skip(marker_is_stale, inputs, outputs) ==
    is_up_to_date(skip_up_to_date_check([up_to_date |-> ~marker_is_stale]),
                  inputs, outputs)

\* any force flag and any files: the unlinked binaries exist, a linked file
\* may be missing
InitOracle ==
    /\ deps = [c \in Components |-> <<>>]
    /\ force \in BOOLEAN
    /\ clock = MaxTime
    /\ component_wasm \in [Components -> 0..MaxTime]
    /\ client_wasm = [d \in DependencyNames |-> 0]
    /\ linked_wasm \in [Components -> {NoFile} \cup {FileAt(t) : t \in 0..MaxTime}]
    /\ store = [c \in Components |-> NoRecord]
    /\ pc = "idle"
    /\ selected = <<>>
    /\ i = 1
    /\ marker = NoMarker
    /\ action = NoAction
    /\ log = <<>>
    /\ ret = "none"
    /\ last_attempt = [c \in Components |-> "none"]
    /\ previous = NoPrevious
    /\ changes = 0
    /\ query = NoQuery
    /\ InitAside

\* the oracle is asked once
ShouldSkip(marker_is_stale, inputs, outputs) ==
    /\ query = NoQuery
    /\ query' = [op |-> "should_skip",
                 force |-> force,
                 marker_is_stale |-> marker_is_stale,
                 inputs |-> inputs,
                 outputs |-> outputs,
                 verdict |-> should_skip(marker_is_stale, inputs, outputs)]
    /\ UNCHANGED <<output_vars, config_vars, indent_vars, app_vars, clock, file_vars,
                   store, run_vars, last_attempt, previous, changes>>

NextOracle ==
    \E marker_is_stale \in BOOLEAN :
        \E inputs \in PathLists({component_wasm_path(c) : c \in Components}, 0) :
            \E outputs \in PathLists({component_linked_wasm_path(c) : c \in Components}, 1) :
                ShouldSkip(marker_is_stale, inputs, outputs)

SpecOracle == InitOracle /\ [][NextOracle]_vars

(* ------------------------------ properties ---------------------------- *)

\* the verdict a run starting in this state gives a component
would_skip(c) ==
    link_is_up_to_date(c, deps[c], TaskResultMarker_new(c, deps[c]))

\* the positions of link_rpc inside a run
InRun == {"loop", "check", "act", "result"}

\* the names of the Static dependencies a list declares
DeclaredStaticNames(declared) ==
    {declared[k].name :
        k \in {j \in 1..Len(declared) : declared[j].dep_type = "StaticWasmRpc"}}

\* C1 (retry on failure): a component whose last copy/compose failed, with
\* the same Static dependencies and unchanged files since, is not skipped by
\* the next run: neither the verdict of a run that starts now nor the verdict
\* of the run that is checking it is "up to date".
C1_RetryOnFailure ==
    \A c \in Components :
        last_attempt[c] = "failed" =>
            /\ ~would_skip(c)
            /\ (pc = "check" /\ cur = c) => ~link_is_up_to_date(c, deps[c], marker)

\* a later run acts again on a component whose last attempt failed and left a
\* partial output behind
C1_Witness ==
    /\ pc = "act"
    /\ last_attempt[cur] = "failed"
    /\ linked_wasm[cur].exists
    /\ ~force

\* C2 (idempotence): in a run that follows a successful run of the same
\* selection with nothing changed in between and the force flag off, no copy
\* and no compose happens: every component the run checks is skipped.
C2_Idempotence ==
    (/\ pc \in InRun
     /\ previous.ret = "Ok"
     /\ previous.selected = selected
     /\ ~force)
    => /\ Linked(log) = {}
       /\ pc \notin {"act", "result"}
       /\ pc = "check" => link_is_up_to_date(cur, deps[cur], marker)
       /\ \A k \in 1..(i - 1) : \E p \in 1..Len(log) : log[p] = Event("skip", selected[k])

\* the second run of a selection of two components, both linked by the first
\* run, has skipped both
C2_Witness ==
    /\ pc = "loop"
    /\ Len(selected) = 2
    /\ i = 3
    /\ previous.ret = "Ok"
    /\ previous.selected = selected
    /\ previous.linked = Components
    /\ ~force

\* C3 (crash safety): a component whose copy/compose was in flight when the
\* process was terminated is not skipped by the next run.
C3_CrashSafety ==
    \A c \in Components : last_attempt[c] = "killed" => ~would_skip(c)

\* C3, first half: the store changes only in the step that records the
\* outcome of a completed action
C3_MarkerWrittenAfterAction ==
    [][store' # store => pc = "result" /\ action.result \in {"Ok", "Err"}]_vars

\* the Static entries of a declared list, in declared order
RECURSIVE DeclaredStaticEntries(_)
DeclaredStaticEntries(declared) ==
    IF declared = <<>> THEN <<>>
    ELSE IF Head(declared).dep_type = "StaticWasmRpc"
         THEN <<Head(declared)>> \o DeclaredStaticEntries(Tail(declared))
         ELSE DeclaredStaticEntries(Tail(declared))

\* the lists that differ from a declared list only in their Dynamic entries
DynamicVariants ==
    [c \in Components |-> [declared \in {d : d \in DeclaredLists(c)} |->
        {other \in DeclaredLists(c) :
            DeclaredStaticEntries(other) = DeclaredStaticEntries(declared)}]]

\* the marker key and the verdict of a component under a declared list
KeyAndVerdict(c, declared) ==
    [key |-> LinkRpcMarkerHash(c, declared),
     skip |-> link_is_up_to_date(c, declared, TaskResultMarker_new(c, declared))]

\* C4 as stated (dynamic independence): in every state a run can start in, a
\* dependency list that differs from the declared one only in its Dynamic
\* entries gives the component the same marker key and the same skip/act
\* verdict, and after a successful link of the component the next run skips
\* it under such a list.
C4_DynamicIndependence_Original ==
    pc = "idle" => \A c \in Components :
        LET now == KeyAndVerdict(c, deps[c])
        IN  \A other \in DynamicVariants[c][deps[c]] :
                /\ KeyAndVerdict(c, other) = now
                /\ last_attempt[c] = "done" => KeyAndVerdict(c, other).skip

\* C4 amended: the same, the skip after a successful link being claimed for
\* a next run with the force flag off.
C4_DynamicIndependence ==
    pc = "idle" => \A c \in Components :
        LET now == KeyAndVerdict(c, deps[c])
        IN  \A other \in DynamicVariants[c][deps[c]] :
                /\ KeyAndVerdict(c, other) = now
                /\ (last_attempt[c] = "done" /\ ~force) => KeyAndVerdict(c, other).skip

\* a run has skipped a component that declares a Static and a Dynamic
\* dependency
C4_Witness ==
    /\ pc = "loop"
    /\ ~force
    /\ i = 2
    /\ log = <<Event("marker_new", selected[1]), Event("skip", selected[1])>>
    /\ static_dependencies(deps[selected[1]]) # {}
    /\ dynamic_dependencies(deps[selected[1]]) # {}

\* the marker keys of a component under the lists it can declare that have
\* the same set of Static names as a declared list, and under the other lists
KeysOf ==
    [c \in Components |-> [declared \in {d : d \in DeclaredLists(c)} |->
        [same |-> {LinkRpcMarkerHash(c, other) :
                     other \in {o \in DeclaredLists(c) :
                        DeclaredStaticNames(o) = DeclaredStaticNames(declared)}},
         others |-> {LinkRpcMarkerHash(c, other) :
                     other \in {o \in DeclaredLists(c) :
                        DeclaredStaticNames(o) # DeclaredStaticNames(declared)}}]]]

\* C5 (set sensitivity): in every state a run can start in, every dependency
\* list with the same set of Static names as the declared one gives the same
\* marker key, whatever its order and its duplicates; every list with another
\* set of Static names gives another key, and a component whose stored record
\* was made under such a list is not skipped.
C5_SetSensitivity ==
    pc = "idle" => \A c \in Components :
        LET key == LinkRpcMarkerHash(c, deps[c])
            keys == KeysOf[c][deps[c]]
        IN  /\ keys.same = {key}
            /\ key \notin keys.others
            /\ (store[c].exists /\ store[c].hash \in keys.others) => ~would_skip(c)

\* a component is linked again only because the set of its Static
\* dependencies changed after its successful link
C5_Witness ==
    /\ pc = "act"
    /\ ~force
    /\ store[cur].exists
    /\ store[cur].outcome = "success"
    /\ store[cur].hash # marker.hash
    /\ is_up_to_date(FALSE, link_inputs(cur, deps[cur]), link_outputs(cur))

\* C6 (passthrough): the action of a component without Static dependencies
\* is a copy of its unlinked binary to its linked output, never a
\* composition, and after its success the linked output has the content of
\* the unlinked binary.
C6_Passthrough ==
    (pc \in {"act", "result"} /\ DeclaredStaticNames(deps[cur]) = {}) =>
        /\ action.op = "copy"
        /\ action.from = component_wasm_path(cur)
        /\ action.to = component_linked_wasm_path(cur)
        /\ Event("compose", cur) \notin Range(log)
        /\ action.result = "Ok" =>
             /\ linked_wasm[cur].exists
             /\ linked_wasm[cur].content = wasm_content(cur)

\* a component with Dynamic dependencies only has been copied
C6_Witness ==
    /\ pc = "result"
    /\ action.result = "Ok"
    /\ DeclaredStaticNames(deps[cur]) = {}
    /\ Len(deps[cur]) > 0

\* C7 (external tamper detection): a component whose stored record is a
\* success for its current key and whose linked output is missing is not
\* skipped.
C7_TamperDetection ==
    \A c \in Components :
        (/\ store[c].exists
         /\ store[c].outcome = "success"
         /\ store[c].hash = LinkRpcMarkerHash(c, deps[c])
         /\ ~linked_wasm[c].exists)
        => /\ ~would_skip(c)
           /\ (pc = "check" /\ cur = c) => ~link_is_up_to_date(c, deps[c], marker)

\* a run acts on a component with a fresh marker because its linked output
\* was deleted
C7_Witness ==
    /\ pc = "act"
    /\ ~force
    /\ marker.up_to_date
    /\ ~linked_wasm[cur].exists

\* C8 (fail fast): the record of a failed action is the last event of its
\* run and link_rpc has returned an error; no component later in the
\* selection has an event in that run.
C8_FailFast ==
    /\ \A p \in 1..Len(log) :
         log[p].ev = "record_failure" =>
            /\ p = Len(log)
            /\ pc = "returned"
            /\ ret = "Err"
    /\ (pc = "returned" /\ ret = "Err") =>
         /\ log[Len(log)] = Event("record_failure", cur)
         /\ \A k \in (i + 1)..Len(selected) : \A p \in 1..Len(log) :
              log[p].component # selected[k]

\* a run failed at its first component and left the second one untouched
C8_Witness ==
    /\ pc = "returned"
    /\ ret = "Err"
    /\ i = 1
    /\ Len(selected) = 2

\* the first half of C9: the components a failed run linked before the
\* failure have their linked output and a success record of their key
KeptAfterFailure ==
    (pc = "returned" /\ ret = "Err") =>
        \A k \in 1..(i - 1) :
            selected[k] \in Linked(log) =>
                /\ linked_wasm[selected[k]].exists
                /\ store[selected[k]].exists
                /\ store[selected[k]].outcome = "success"
                /\ store[selected[k]].hash
                     = LinkRpcMarkerHash(selected[k], deps[selected[k]])

\* the run in progress retries a failed run of the same selection, with
\* nothing changed in between
RetryOfFailedRun ==
    /\ pc \in InRun
    /\ previous.ret = "Err"
    /\ previous.selected = selected

\* C9 as stated (resume after failure): the components a failed run linked
\* before the failure keep output and success record, and a retry of the run
\* with unchanged inputs skips them and acts on the component that failed.
C9_ResumeAfterFailure_Original ==
    /\ KeptAfterFailure
    /\ RetryOfFailedRun =>
         /\ (pc = "check" /\ i < previous.failed_at /\ cur \in previous.linked)
              => link_is_up_to_date(cur, deps[cur], marker)
         /\ (pc = "check" /\ i = previous.failed_at)
              => ~link_is_up_to_date(cur, deps[cur], marker)

\* C9 amended: the same, for a retry with the force flag off; every component
\* before the failed one is then skipped and no action starts before it.
C9_ResumeAfterFailure ==
    /\ KeptAfterFailure
    /\ (RetryOfFailedRun /\ ~force) =>
         /\ (pc = "check" /\ i < previous.failed_at)
              => link_is_up_to_date(cur, deps[cur], marker)
         /\ (pc = "check" /\ i = previous.failed_at)
              => ~link_is_up_to_date(cur, deps[cur], marker)
         /\ pc \in {"act", "result"} => i >= previous.failed_at

\* the retry of a run that failed at its second component has skipped the
\* first, which the failed run had linked, and acts on the second
C9_Witness ==
    /\ RetryOfFailedRun
    /\ ~force
    /\ pc = "act"
    /\ i = 2
    /\ previous.failed_at = 2
    /\ previous.linked = {selected[1]}
    /\ Event("skip", selected[1]) \in Range(log)

\* position of a component in the selection
PositionIn(sel, c) == CHOOSE k \in 1..Len(sel) : sel[k] = c

RECURSIVE EventsOf(_, _)
\* the events of a component in a log, in order
EventsOf(events, c) ==
    IF events = <<>> THEN <<>>
    ELSE IF Head(events).component = c
         THEN <<Head(events).ev>> \o EventsOf(Tail(events), c)
         ELSE EventsOf(Tail(events), c)

\* the event sequences of a component that has been processed completely
CompleteSteps ==
    {<<"marker_new", "skip">>,
     <<"marker_new", "copy", "record_success">>,
     <<"marker_new", "compose", "record_success">>,
     <<"marker_new", "copy", "record_failure">>,
     <<"marker_new", "compose", "record_failure">>}

\* the event sequences of a component that is being processed
StartedSteps ==
    {<<"marker_new">>, <<"marker_new", "copy">>, <<"marker_new", "compose">>}

\* C10 (ordering): the events of a run are those of the selected components
\* in the order of the selection; the events of a component are contiguous
\* and follow read marker, decide, act, write marker; every component before
\* the current one is complete and no later one has begun.
C10_Ordering ==
    pc \in InRun \cup {"returned"} =>
        /\ \A p \in 1..Len(log) : log[p].component \in Range(selected)
        /\ \A p, q \in 1..Len(log) :
             p < q => PositionIn(selected, log[p].component)
                        <= PositionIn(selected, log[q].component)
        /\ \A k \in 1..Len(selected) :
             LET steps == EventsOf(log, selected[k])
             IN  IF k < i THEN steps \in CompleteSteps
                 ELSE IF k > i THEN steps = <<>>
                 ELSE CASE pc = "loop" -> steps = <<>>
                        [] pc = "check" -> steps = <<"marker_new">>
                        [] pc \in {"act", "result"} ->
                             steps \in StartedSteps \ {<<"marker_new">>}
                        [] pc = "returned" -> steps \in CompleteSteps

\* a run over two components has processed both, linking each
C10_Witness ==
    /\ pc = "returned"
    /\ Len(selected) = 2
    /\ Len(log) = 6

\* the event sequences of a component that has been acted on and recorded
ActedSteps == CompleteSteps \ {<<"marker_new", "skip">>}

\* C11 (force): with the force flag set no component is skipped, whatever
\* the stored marker and the timestamps are: the verdict of a run that would
\* start now and of the check in progress is "act", the run has no skip
\* event, and every component the run is done with has been copied or
\* composed and has the outcome of that action stored under its key.
C11_Force ==
    force =>
        /\ \A c \in Components : ~would_skip(c)
        /\ pc = "check" => ~link_is_up_to_date(cur, deps[cur], marker)
        /\ pc \in InRun \cup {"returned"} =>
             /\ \A p \in 1..Len(log) : log[p].ev # "skip"
             /\ \A k \in 1..Len(selected) :
                  (k < i \/ (k = i /\ pc = "returned" /\ ret = "Err")) =>
                    LET c == selected[k]
                        steps == EventsOf(log, c)
                    IN  /\ steps \in ActedSteps
                        /\ store[c].exists
                        /\ store[c].hash = LinkRpcMarkerHash(c, deps[c])
                        /\ store[c].outcome =
                             (IF steps[3] = "record_success" THEN "success"
                                                             ELSE "failure")

\* a forced run acts on a component whose marker is fresh and whose linked
\* output exists and is not older than its inputs
C11_Witness ==
    /\ force
    /\ pc = "act"
    /\ marker.up_to_date
    /\ is_up_to_date(FALSE, link_inputs(cur, deps[cur]), link_outputs(cur))

\* the events of a marker operation that failed
MarkerErrors ==
    {"marker_new_failed", "write_failed_after_success", "write_failed_after_failure"}

\* the event sequences of a component whose marker could not be written
\* after its action completed
WriteFailedSteps ==
    {<<"marker_new", op, w>> :
        op \in {"copy", "compose"},
        w \in {"write_failed_after_success", "write_failed_after_failure"}}

\* C12 (marker persistence errors are fatal): a failed marker operation is
\* the last event of its run and link_rpc has returned an error; when the
\* marker could not be created the component has no copy and no compose in
\* the run; when the marker could not be written the error is returned also
\* after a successful action; no later component has an event and the
\* component has no second marker operation or action in the run.
C12_MarkerErrorsFatal ==
    /\ \A p \in 1..Len(log) :
         log[p].ev \in MarkerErrors =>
            /\ p = Len(log)
            /\ pc = "returned"
            /\ ret = "Err"
            /\ log[p].component = cur
            /\ \A k \in (i + 1)..Len(selected) : EventsOf(log, selected[k]) = <<>>
            /\ IF log[p].ev = "marker_new_failed"
               THEN EventsOf(log, cur) = <<"marker_new_failed">>
               ELSE /\ EventsOf(log, cur) \in WriteFailedSteps
                    /\ EventsOf(log, cur)[3] = log[p].ev
    /\ pc \in InRun => \A k \in 1..(i - 1) : EventsOf(log, selected[k]) \in CompleteSteps

\* link_rpc returned an error because the outcome of a successful
\* composition of the first of two components could not be written
C12_Witness ==
    /\ pc = "returned"
    /\ ret = "Err"
    /\ i = 1
    /\ Len(selected) = 2
    /\ log[Len(log)] = Event("write_failed_after_success", cur)
    /\ Event("compose", cur) \in Range(log)
    /\ linked_wasm[cur].exists

\* link_rpc returned an error because the marker of the second component
\* could not be created, after it linked the first
C12_WitnessNew ==
    /\ pc = "returned"
    /\ ret = "Err"
    /\ i = 2
    /\ log[Len(log)] = Event("marker_new_failed", cur)
    /\ selected[1] \in Linked(log)

\* the event sequences of a component that ended Skipped or Linked
SkippedOrLinkedSteps ==
    {<<"marker_new", "skip">>,
     <<"marker_new", "copy", "record_success">>,
     <<"marker_new", "compose", "record_success">>}

\* the events of a failed action and of a failed marker operation
FailureEvents == MarkerErrors \cup {"record_failure"}

\* what link_rpc has returned: Ok exactly when every selected component
\* ended Skipped or Linked, an error exactly when an action or a marker
\* operation failed; Ok and no event with an empty selection
C13_Returned ==
    pc = "returned" =>
        /\ ret \in {"Ok", "Err"}
        /\ ret = "Ok" <=>
             \A k \in 1..Len(selected) :
                EventsOf(log, selected[k]) \in SkippedOrLinkedSteps
        /\ ret = "Err" <=> \E p \in 1..Len(log) : log[p].ev \in FailureEvents
        /\ selected = <<>> => (ret = "Ok" /\ log = <<>>)

\* a run over an empty selection changes neither the application, nor a
\* file, nor the marker store
C13_EmptySelection ==
    (selected' = <<>> /\ pc' \in InRun \cup {"returned"}) =>
        UNCHANGED <<app_vars, clock, file_vars, store>>

\* a run in progress ends: link_rpc returns, or the process is terminated
C13_Terminates == (pc \in InRun) ~> (pc \notin InRun)

\* C13 (result of link): with every copy/compose completing, link_rpc over
\* a finite selection terminates; it returns Ok exactly when every selected
\* component ended Skipped or Linked and an error exactly when an action or
\* a marker operation failed; with an empty selection it returns Ok and
\* changes nothing.
C13_ResultOfLink ==
    /\ []C13_Returned
    /\ [][C13_EmptySelection]_vars
    /\ C13_Terminates

\* link_rpc returned Ok over two components, one skipped and one linked
C13_Witness ==
    /\ pc = "returned"
    /\ ret = "Ok"
    /\ Len(selected) = 2
    /\ \E k \in 1..2 : EventsOf(log, selected[k]) = <<"marker_new", "skip">>
    /\ \E k \in 1..2 : Len(EventsOf(log, selected[k])) = 3

\* the verdict "skip" for a component, from the state alone: the force flag
\* is off, a success is stored under the current key, the linked output
\* exists, and neither the unlinked binary nor the client stub of a declared
\* Static dependency is newer than the linked output
SkipVerdict(c) ==
    /\ ~force
    /\ store[c].exists
    /\ store[c].outcome = "success"
    /\ store[c].hash.component_name = c
    /\ Range(store[c].hash.dependencies) = DeclaredStaticNames(deps[c])
    /\ linked_wasm[c].exists
    /\ component_wasm[c] <= linked_wasm[c].mtime
    /\ \A d \in DeclaredStaticNames(deps[c]) : client_wasm[d] <= linked_wasm[c].mtime

\* a step of link_rpc from the check of a component whose verdict is skip
C14_SkipStep ==
    (pc = "check" /\ SkipVerdict(cur) /\ pc' # "idle") =>
        /\ pc' = "loop"
        /\ i' = i + 1
        /\ log' = Append(log, Event("skip", cur))
        /\ UNCHANGED <<oracle_vars, output_vars, config_vars, indent_vars, app_vars, clock, file_vars, store>>

\* the step of link_rpc that creates the marker of a component
C14_LookStep ==
    (pc = "loop" /\ pc' = "check") => UNCHANGED <<app_vars, clock, file_vars, store>>

\* C14 (skip has no effect): from the check of a component whose verdict is
\* skip, link_rpc goes to the next component with no file changed (no copy,
\* no compose, linked output untouched) and no marker written; creating the
\* marker changed nothing either, so the stored records after the skip are
\* those from before link_rpc looked at the component.
C14_SkipNoEffect == [][C14_SkipStep /\ C14_LookStep]_vars

\* a run has skipped its only component, which an earlier run composed
C14_Witness ==
    /\ pc = "loop"
    /\ Len(selected) = 1
    /\ log = <<Event("marker_new", selected[1]), Event("skip", selected[1])>>
    /\ SkipVerdict(selected[1])
    /\ DeclaredStaticNames(deps[selected[1]]) # {}

\* C15 (oracle decision table): the verdict of should_skip is skip exactly
\* when the force flag is off, the marker is not stale, every output exists
\* and no input is strictly newer than an output; so equal timestamps and an
\* empty input list give skip when the other conditions hold, and either
\* staleness signal alone gives a rebuild.
C15_OracleTable ==
    query # NoQuery =>
        LET ins == Range(query.inputs)
            outs == Range(query.outputs)
            fresh == /\ \A o \in outs : exists(o)
                     /\ \A n \in ins : \A o \in outs : mtime(n) <= mtime(o)
        IN  /\ query.verdict <=> (~query.force /\ ~query.marker_is_stale /\ fresh)
            /\ query.marker_is_stale => ~query.verdict
            /\ (\E o \in outs : ~exists(o)) => ~query.verdict
            /\ (/\ \A o \in outs : exists(o)
                /\ \E n \in ins : \E o \in outs : mtime(n) > mtime(o)) => ~query.verdict
            /\ (~query.force /\ ~query.marker_is_stale /\ ins = {}
                  /\ \A o \in outs : exists(o)) => query.verdict

\* the oracle said skip for an input exactly as old as the older of two
\* outputs
C15_Witness ==
    /\ query # NoQuery
    /\ query.verdict
    /\ Len(query.inputs) = 1
    /\ Cardinality(Range(query.outputs)) = 2
    /\ \E o \in Range(query.outputs) : mtime(o) = mtime(query.inputs[1])
    /\ \E o \in Range(query.outputs) : mtime(o) > mtime(query.inputs[1])

\* the record that stores an outcome of a component under its current key
RecordOf(c, outcome) ==
    [exists |-> TRUE, hash |-> LinkRpcMarkerHash(c, deps[c]), outcome |-> outcome]

\* the number of events of a log with a name out of a set
RECURSIVE CountOf(_, _)
CountOf(steps, names) ==
    IF steps = <<>> THEN 0
    ELSE (IF Head(steps) \in names THEN 1 ELSE 0) + CountOf(Tail(steps), names)

\* the step of link_rpc after a completed copy/compose: one marker write
\* with the outcome of the action, then the result of the action goes on
C16_RecordStep ==
    (pc = "result" /\ pc' # "idle") =>
        LET outcome == IF action.result = "Ok" THEN "success" ELSE "failure"
        IN  /\ store' = [store EXCEPT ![cur] = RecordOf(cur, outcome)]
            /\ log' = Append(log, Event(IF action.result = "Ok" THEN "record_success"
                                                                ELSE "record_failure", cur))
            /\ UNCHANGED file_vars
            /\ action.result = "Err" => (pc' = "returned" /\ ret' = action.result)
            /\ action.result = "Ok" => (pc' = "loop" /\ ret' = ret)

\* no other step writes a marker
C16_StoreStep ==
    \A c \in Components :
        store'[c] # store[c] => (pc = "result" /\ c = cur /\ pc' # "idle")

\* what is stored: a component whose most recent attempt completed with a
\* failure (a success) and whose key has not changed since has a failure
\* (a success) stored under its current key; in a run every action of a
\* component has one record, but for the action in flight
C16_Stored ==
    /\ \A c \in Components :
         /\ last_attempt[c] = "failed" => store[c] = RecordOf(c, "failure")
         /\ last_attempt[c] = "done" => store[c] = RecordOf(c, "success")
    /\ \A k \in 1..Len(selected) :
         LET c == selected[k]
             steps == EventsOf(log, c)
             acts == CountOf(steps, {"copy", "compose"})
             records == CountOf(steps, {"record_success", "record_failure"})
         IN  /\ acts <= 1
             /\ records = (IF k = i /\ pc \in {"act", "result"} THEN 0 ELSE acts)
             /\ records = 1 =>
                  store[c] = RecordOf(c, IF steps[Len(steps)] = "record_success"
                                         THEN "success" ELSE "failure")
    /\ (pc = "returned" /\ ret = "Err") => store[cur] = RecordOf(cur, "failure")

\* C16 (record after every attempt): every copy/compose that completes is
\* followed by exactly one marker write for its component with its outcome,
\* before link_rpc goes on or returns; a failed action is stored as failure
\* and its error is what link_rpc returns; nothing else writes a marker, so
\* the record stored for the current key of a component is the outcome of
\* its most recent completed attempt.
C16_RecordAfterAttempt ==
    /\ [][C16_RecordStep /\ C16_StoreStep]_vars
    /\ []C16_Stored

\* link_rpc returned the error of a failed action over a success stored by
\* an earlier run: the record of the component is now a failure
C16_Witness ==
    /\ pc = "returned"
    /\ ret = "Err"
    /\ Len(selected) = 1
    /\ store[cur] = RecordOf(cur, "failure")
    /\ linked_wasm[cur].exists
    /\ linked_wasm[cur].content # [partial |-> TRUE]

\* a success is stored for a component under exactly its current key
SuccessStored(c) ==
    /\ store[c].exists
    /\ store[c].hash.component_name = c
    /\ Range(store[c].hash.dependencies) = DeclaredStaticNames(deps[c])
    /\ Len(store[c].hash.dependencies) = Cardinality(DeclaredStaticNames(deps[c]))
    /\ store[c].outcome = "success"

\* C17 (marker freshness): the marker of the component being processed is
\* up to date exactly when a record is stored for its step identity and its
\* exact input hash with the outcome success; a component with no stored
\* record is not skipped, by the check in progress or by a run that starts
\* now, also when its linked output exists and is not older than its inputs.
C17_MarkerFreshness ==
    /\ pc \in {"check", "act", "result"} =>
         /\ marker.component = cur
         /\ marker.up_to_date <=> SuccessStored(cur)
    /\ \A c \in Components :
         ~store[c].exists =>
            /\ ~would_skip(c)
            /\ (pc = "check" /\ cur = c) => ~link_is_up_to_date(c, deps[c], marker)

\* a run acts on a component that has no stored record, with the force flag
\* off, although a linked output exists that is not older than its inputs
C17_Witness ==
    /\ pc = "act"
    /\ ~force
    /\ ~store[cur].exists
    /\ linked_wasm[cur].exists
    /\ is_up_to_date(FALSE, link_inputs(cur, deps[cur]), link_outputs(cur))

\* an input of the link of a component is strictly newer than its linked
\* output: the unlinked binary, or the client stub of a Static dependency
InputNewer(c) ==
    \/ component_wasm[c] > linked_wasm[c].mtime
    \/ \E d \in DeclaredStaticNames(deps[c]) : client_wasm[d] > linked_wasm[c].mtime

\* C18 (timestamp staleness): a component with a success stored under its
\* current key and an existing linked output is not skipped when its
\* unlinked binary or the client stub of one of its Static dependencies is
\* strictly newer than the linked output; the inputs of the check are the
\* unlinked binary and the stubs of the Static dependencies only, and with
\* none of them newer and the force flag off the component is skipped
\* whatever the timestamps of the other stubs are.
C18_TimestampStaleness ==
    \A c \in Components :
        /\ Range(link_inputs(c, deps[c])) =
             {component_wasm_path(c)}
                \cup {client_wasm_path(d) : d \in DeclaredStaticNames(deps[c])}
        /\ (SuccessStored(c) /\ linked_wasm[c].exists /\ InputNewer(c)) =>
             /\ ~would_skip(c)
             /\ (pc = "check" /\ cur = c) => ~link_is_up_to_date(c, deps[c], marker)
        /\ (SuccessStored(c) /\ linked_wasm[c].exists /\ ~InputNewer(c) /\ ~force) =>
             /\ would_skip(c)
             /\ (pc = "check" /\ cur = c) => link_is_up_to_date(c, deps[c], marker)

\* a run acts on a component with a fresh marker and an existing linked
\* output because the client stub of a Static dependency is newer than the
\* output, the unlinked binary being older
C18_Witness ==
    /\ pc = "act"
    /\ ~force
    /\ marker.up_to_date
    /\ linked_wasm[cur].exists
    /\ component_wasm[cur] <= linked_wasm[cur].mtime
    /\ \E d \in DeclaredStaticNames(deps[cur]) : client_wasm[d] > linked_wasm[cur].mtime

\* a run has skipped a component although the client stub of a dependency it
\* declares as Dynamic only is newer than its linked output
C18_WitnessDynamic ==
    /\ pc = "loop"
    /\ i = 2
    /\ Event("skip", selected[1]) \in Range(log)
    /\ \E k \in 1..Len(deps[selected[1]]) :
         /\ deps[selected[1]][k].dep_type = "DynamicWasmRpc"
         /\ deps[selected[1]][k].name \notin DeclaredStaticNames(deps[selected[1]])
         /\ client_wasm[deps[selected[1]][k].name] > linked_wasm[selected[1]].mtime

\* the state of a component in a run, from the events of the run
ComponentState(events, c) ==
    LET steps == EventsOf(events, c)
    IN  CASE steps \in {<<>>, <<"marker_new">>} -> "Pending"
          [] steps = <<"marker_new", "skip">> -> "Skipped"
          [] steps \in {<<"marker_new", "copy">>, <<"marker_new", "compose">>} -> "Linking"
          [] steps \in {<<"marker_new", "copy", "record_success">>,
                        <<"marker_new", "compose", "record_success">>} -> "Linked"
          [] steps \in {<<"marker_new", "copy", "record_failure">>,
                        <<"marker_new", "compose", "record_failure">>} -> "Failed"
          [] OTHER -> "Invalid"

\* the transitions of the state machine of a component
ComponentTransitions ==
    {<<"Pending", "Skipped">>, <<"Pending", "Linking">>,
     <<"Linking", "Linked">>, <<"Linking", "Failed">>}

\* in a run every selected component is in a state of the state machine, at
\* most one is Linking, and it is the one link_rpc is acting on
C19_States ==
    pc \in InRun \cup {"returned"} =>
        /\ \A c \in Range(selected) : ComponentState(log, c) # "Invalid"
        /\ \A c \in Components \ Range(selected) : EventsOf(log, c) = <<>>
        /\ Cardinality({c \in Range(selected) : ComponentState(log, c) = "Linking"}) <= 1
        /\ \A c \in Range(selected) :
             ComponentState(log, c) = "Linking" <=> (pc \in {"act", "result"} /\ c = cur)

\* a step inside a run leaves the state of a component or takes one
\* transition of the state machine
C19_Step ==
    (pc \in InRun /\ pc' \in InRun \cup {"returned"}) =>
        /\ selected' = selected
        /\ \A c \in Range(selected) :
             \/ ComponentState(log', c) = ComponentState(log, c)
             \/ <<ComponentState(log, c), ComponentState(log', c)>> \in ComponentTransitions

\* C19 (per-component state machine): within one run a component only goes
\* Pending -> Skipped, Pending -> Linking, Linking -> Linked or Linking ->
\* Failed; Skipped, Linked and Failed are left by no step of the run, so no
\* component is acted on twice or after it was skipped; at most one
\* component is Linking at any time.
C19_StateMachine ==
    /\ []C19_States
    /\ [][C19_Step]_vars

\* in one run a component was skipped, another one linked, and the run is
\* not over
C19_Witness ==
    /\ pc = "loop"
    /\ Len(selected) = 2
    /\ ComponentState(log, selected[1]) = "Skipped"
    /\ ComponentState(log, selected[2]) = "Linked"

\* C20 (composition arguments): the action of a component with a non-empty
\* Static set is one compose per attempt, with the unlinked binary of the
\* component as primary, its linked output as destination, and as stubs the
\* client stubs of its Static dependencies, each once, in ascending order of
\* the names: the names hashed into the marker; after its success the linked
\* output is the composition of exactly these.
C20_ComposeArguments ==
    (pc \in {"act", "result"} /\ DeclaredStaticNames(deps[cur]) # {}) =>
        /\ action.op = "compose"
        /\ action.from = component_wasm_path(cur)
        /\ action.to = component_linked_wasm_path(cur)
        /\ Range(action.stubs) =
             {client_wasm_path(d) : d \in DeclaredStaticNames(deps[cur])}
        /\ \A p, q \in 1..Len(action.stubs) :
             p < q => NameRank(action.stubs[p].of) < NameRank(action.stubs[q].of)
        /\ marker.hash.dependencies = [k \in 1..Len(action.stubs) |-> action.stubs[k].of]
        /\ CountOf(EventsOf(log, cur), {"compose"}) = 1
        /\ CountOf(EventsOf(log, cur), {"copy"}) = 0
        /\ action.result = "Ok" =>
             linked_wasm[cur].content =
                [primary |-> wasm_content(cur),
                 stubs |-> [k \in 1..Len(action.stubs) |-> action.stubs[k].of]]

\* api declares the Static dependencies billing and audit, in this order:
\* compose(api, [audit, billing]) is in flight
C20_Witness ==
    /\ pc = "act"
    /\ cur = "api"
    /\ deps["api"] = <<[name |-> "billing", dep_type |-> "StaticWasmRpc"],
                       [name |-> "audit", dep_type |-> "StaticWasmRpc"]>>
    /\ action.op = "compose"
    /\ action.stubs = <<client_wasm_path("audit"), client_wasm_path("billing")>>

(* ----------------------- the classification alone --------------------- *)

\* every application the components can declare
Applications ==
    {f \in [Components -> UNION {DeclaredLists(c) : c \in Components}] :
        \A c \in Components : f[c] \in DeclaredLists(c)}

\* any application, before a run
InitClassify ==
    /\ deps \in Applications
    /\ force = FALSE
    /\ clock = 0
    /\ component_wasm = [c \in Components |-> 0]
    /\ client_wasm = [d \in DependencyNames |-> 0]
    /\ linked_wasm = [c \in Components |-> NoFile]
    /\ store = [c \in Components |-> NoRecord]
    /\ pc = "idle"
    /\ selected = <<>>
    /\ i = 1
    /\ marker = NoMarker
    /\ action = NoAction
    /\ log = <<>>
    /\ ret = "none"
    /\ last_attempt = [c \in Components |-> "none"]
    /\ previous = NoPrevious
    /\ changes = 0
    /\ query = NoQuery
    /\ InitAside

\* the two sets the head of the loop body collects for a component, each in
\* its iteration order
classify(declared) ==
    [static_dependencies |-> BTreeSetIter(static_dependencies(declared)),
     dynamic_dependencies |-> BTreeSetIter(dynamic_dependencies(declared))]

\* the dependencies of a component are classified once
Classify(c) ==
    /\ query = NoQuery
    /\ query' = [op |-> "classify",
                 component |-> c,
                 declared |-> deps[c],
                 result |-> classify(deps[c])]
    /\ UNCHANGED <<output_vars, config_vars, indent_vars, app_vars, clock, file_vars,
                   store, run_vars, last_attempt, previous, changes>>

NextClassify == \E c \in Components : Classify(c)

SpecClassify == InitClassify /\ [][NextClassify]_vars

\* C21: classification partitions the declared dependencies by type: a
\* Static dependency is in the static set and not in the dynamic one, a
\* Dynamic one the other way round, and nothing else is in a set; no set
\* has two entries with the same target name; every declared list with the
\* same entries, in any order and with any duplication, gives the same two
\* sets in the same order; an empty list gives two empty sets.
C21_Classification ==
    query.op = "classify" =>
        LET d == query.declared
            st == query.result.static_dependencies
            dy == query.result.dynamic_dependencies
        IN  /\ \A k \in 1..Len(d) :
                 /\ d[k].dep_type = StaticWasmRpc =>
                        d[k] \in Range(st) /\ d[k] \notin Range(dy)
                 /\ d[k].dep_type = DynamicWasmRpc =>
                        d[k] \in Range(dy) /\ d[k] \notin Range(st)
            /\ Range(st) \cup Range(dy) \subseteq Range(d)
            /\ \A p, q \in 1..Len(st) : p # q => st[p].name # st[q].name
            /\ \A p, q \in 1..Len(dy) : p # q => dy[p].name # dy[q].name
            /\ \A d2 \in DeclaredLists(query.component) :
                 Range(d2) = Range(d) => classify(d2) = query.result
            /\ d = <<>> => st = <<>> /\ dy = <<>>

\* a list that declares billing before audit, both Static, is classified
C21_Witness ==
    /\ query.op = "classify"
    /\ query.declared = <<[name |-> "billing", dep_type |-> StaticWasmRpc],
                          [name |-> "audit", dep_type |-> StaticWasmRpc]>>
    /\ query.result.static_dependencies =
         <<[name |-> "audit", dep_type |-> StaticWasmRpc],
           [name |-> "billing", dep_type |-> StaticWasmRpc]>>
    /\ query.result.dynamic_dependencies = <<>>

\* the stored record of a component reads as fresh for its current key
Fresh(st, c) ==
    marker_is_up_to_date(st[c], LinkRpcMarkerHash(c, deps[c]))

\* two components never have the same key, current or stored
C22_DistinctKeys ==
    \A c1, c2 \in Components :
        c1 # c2 =>
            /\ LinkRpcMarkerHash(c1, deps[c1]) # LinkRpcMarkerHash(c2, deps[c2])
            /\ (store[c1].exists /\ store[c2].exists) =>
                   store[c1].hash # store[c2].hash

\* a step of a run leaves the record and the freshness of every component
\* but the one being processed as they were
C22_OthersStep ==
    pc \in InRun =>
        \A c \in Components :
            (i > Len(selected) \/ c # cur) =>
                /\ store'[c] = store[c]
                /\ Fresh(store', c) <=> Fresh(store, c)

\* C22 (key ownership): two distinct components never share a marker key,
\* also when they declare the same Static dependencies; creating the
\* marker of a component, skipping it, linking it or failing to link it
\* never changes the stored record or the freshness of another component.
C22_KeyOwnership ==
    /\ []C22_DistinctKeys
    /\ [][C22_OthersStep]_vars

\* both components declare the Static dependency audit alone; api is stored
\* as linked and billing as failed
C22_Witness ==
    /\ DeclaredStaticNames(deps["api"]) = {"audit"}
    /\ DeclaredStaticNames(deps["billing"]) = {"audit"}
    /\ store["api"] = RecordOf("api", "success")
    /\ store["billing"] = RecordOf("billing", "failure")
    /\ store["api"].hash.dependencies = store["billing"].hash.dependencies

\* the process is terminated while result() is persisting the outcome of
\* the completed action
C23_CrashInRecord == pc = "result" /\ pc' = "idle"

\* C23 (atomic marker write): after a termination of the process while the
\* outcome of an action is being recorded, the store holds for that key
\* the complete prior record or the complete new record; when the outcome
\* being recorded is a failure, the record left behind does not read as a
\* success for the key of the attempt.
C23_AtomicMarkerWrite ==
    [][C23_CrashInRecord =>
         LET outcome == IF action.result = "Ok" THEN "success" ELSE "failure"
         IN  /\ store'[cur] \in {store[cur],
                                 [exists |-> TRUE, hash |-> marker.hash,
                                  outcome |-> outcome]}
             /\ action.result = "Err" =>
                    ~marker_is_up_to_date(store'[cur], marker.hash)]_vars

(* --------------------- link_rpc under a caller's guards --------------- *)

\* a process that has not used the log state yet
InitLog == Init

\* the caller of link_rpc creates a LogIndent guard
LogIndentNew ==
    /\ pc = "idle"
    /\ indent_guards < MaxIndents
    /\ LogIndent_new
    /\ UNCHANGED <<oracle_vars, output_vars, config_vars, entry_indents, app_vars, clock,
                   file_vars, store, run_vars, last_attempt, previous, changes>>

\* the caller of link_rpc creates a LogIndent guard with a custom prefix
LogIndentPrefix(p) ==
    /\ pc = "idle"
    /\ indent_guards < MaxIndents
    /\ LogIndent_prefix(p)
    /\ UNCHANGED <<oracle_vars, output_vars, config_vars, entry_indents, app_vars, clock,
                   file_vars, store, run_vars, last_attempt, previous, changes>>

\* a LogIndent guard of the caller goes out of scope
LogIndentDrop ==
    /\ pc = "idle"
    /\ indent_guards > 0
    /\ LogIndent_drop
    /\ UNCHANGED <<oracle_vars, output_vars, config_vars, entry_indents, app_vars, clock,
                   file_vars, store, run_vars, last_attempt, previous, changes>>

NextLog ==
    \/ LogIndentNew
    \/ \E p \in CustomPrefixes : LogIndentPrefix(p)
    \/ LogIndentDrop
    \/ \E c \in Components : \E dep \in DependentComponent(c) : AddDependency(c, dep)
    \/ \E sel \in Selections : LinkRpcStart(sel)
    \/ LinkRpcOk
    \/ NewMarker
    \/ Skip
    \/ BeginAction
    \/ ActionSucceeds
    \/ \E partial \in BOOLEAN : ActionFails(partial)
    \/ Result
    \/ Exit

SpecLog == InitLog /\ [][NextLog]_vars

RECURSIVE C24_Concat(_)
\* the levels of a stack, written one after the other
C24_Concat(levels) ==
    IF levels = <<>> THEN <<>>
    ELSE LET last == levels[Len(levels)]
         IN  C24_Concat(SubSeq(levels, 1, Len(levels) - 1))
                \o (IF last = None THEN <<" ", " ">> ELSE last.value)

\* C24 (indentation is scoped): the stack has one level per live LogIndent
\* guard, the computed prefix is the concatenation of the levels of the
\* stack, two spaces for a level without custom prefix; inside link_rpc the
\* stack is the one it was entered with plus its own level, plus one more
\* while a composition is in flight, and when link_rpc has returned, with
\* Ok or with an error, the stack is the one it was entered with.
C24_IndentationScoped ==
    /\ Len(log_state.indents) = indent_guards
    /\ log_state.calculated_indent = C24_Concat(log_state.indents)
    /\ pc \in InRun =>
         log_state.indents =
            entry_indents \o <<None>>
               \o (IF pc = "act" /\ action.op = "compose" THEN <<None>> ELSE <<>>)
    /\ pc = "returned" => log_state.indents = entry_indents

\* link_rpc was entered under a guard with a custom prefix and has returned the error of a failed composition
C24_Witness ==
    /\ pc = "returned"
    /\ ret = "Err"
    /\ \E k \in 1..Len(log) : log[k].ev = "compose"
    /\ entry_indents = <<Some(<<"-", ">", " ">>)>>
    /\ log_state.calculated_indent = <<"-", ">", " ">>

(* ------------------------------- Config ------------------------------- *)

\* the profile names of the migration and one more a user may choose
ProfileName ==
    {"local", "cloud", "default", "cloud_default", "local-migrated",
     "cloud-migrated", "dev"}

\* Profile::Golem with DEFAULT_OSS_URL and Profile::GolemCloud(default)
DefaultLocalProfile == "Golem(DEFAULT_OSS_URL)"
DefaultCloudProfile == "GolemCloud(default)"

\* the profiles a user stores
UserProfiles == {"Golem(a)", "GolemCloud(b)"}

\* HashMap::remove
remove(m, k) == [n \in DOMAIN m \ {k} |-> m[n]]

\* HashMap::insert
insert(m, k, v) == [n \in DOMAIN m \cup {k} |-> IF n = k THEN v ELSE m[n]]

\* HashMap::entry(k).or_insert_with(v)
or_insert_with(m, k, v) == IF k \in DOMAIN m THEN m ELSE insert(m, k, v)

\* Config::default
Config_default ==
    [profiles |-> [n \in {} |-> DefaultLocalProfile], default_profile |-> None]

\* serde of Config: default_profile is written only when it is set
serialize(config) ==
    IF config.default_profile = None
    THEN [profiles |-> config.profiles]
    ELSE [profiles |-> config.profiles,
          default_profile |-> config.default_profile.value]

\* serde of Config: a missing default_profile is read as None
deserialize(json) ==
    [profiles |-> json.profiles,
     default_profile |-> IF "default_profile" \in DOMAIN json
                         THEN Some(json.default_profile) ELSE None]

\* store_file: config.json is created or truncated and written
store_file(config) == [exists |-> TRUE, json |-> serialize(config)]

\* a variant that inserts the local profile only
with_local_profile_only(config) ==
    [profiles |-> or_insert_with(config.profiles, "local", DefaultLocalProfile),
     default_profile |-> IF config.default_profile = None
                         THEN Some("local") ELSE config.default_profile]

\* with_local_and_cloud_profiles
with_local_and_cloud_profiles(config) ==
    [profiles |->
        or_insert_with(
            or_insert_with(config.profiles, "local", DefaultLocalProfile),
            "cloud", DefaultCloudProfile),
     default_profile |-> IF config.default_profile = None
                         THEN Some("local") ELSE config.default_profile]

\* a variant that migrates at every load
not_yet_migrated_always(config) == config.default_profile = config.default_profile

\* from_file: "Detect if it was not yet migrated"
not_yet_migrated(config) == config.default_profile = None

\* from_file: the migration of a config that was not yet migrated
migrate(config) ==
    LET dropped == remove(remove(config.profiles, "default"), "cloud_default")
        local_renamed ==
            IF "local" \in DOMAIN dropped
            THEN insert(remove(dropped, "local"), "local-migrated", dropped["local"])
            ELSE dropped
        cloud_renamed ==
            IF "cloud" \in DOMAIN local_renamed
            THEN insert(remove(local_renamed, "cloud"), "cloud-migrated",
                        local_renamed["cloud"])
            ELSE local_renamed
    IN  [profiles |-> cloud_renamed, default_profile |-> Some("local")]

\* from_file: the configuration it returns and the file it leaves
from_file(file) ==
    IF ~file.exists
    THEN [config |-> with_local_and_cloud_profiles(Config_default), file |-> file]
    ELSE LET config == deserialize(file.json)
         IN  IF not_yet_migrated(config)
             THEN [config |-> with_local_and_cloud_profiles(migrate(config)),
                   file |-> store_file(migrate(config))]
             ELSE [config |-> with_local_and_cloud_profiles(config), file |-> file]

\* a variant that takes every name for a profile of the configuration
contains_key_any(profiles, name) == name \in DOMAIN profiles \cup ProfileName

\* HashMap::contains_key
contains_key(profiles, name) == name \in DOMAIN profiles

\* get_active_profile: the named profile it returns, or the error
get_active_profile(file, selected_profile) ==
    LET config == from_file(file).config
        name == IF selected_profile = None
                THEN (IF config.default_profile = None THEN "local"
                      ELSE config.default_profile.value)
                ELSE selected_profile.value
    IN  IF name \in DOMAIN config.profiles
        THEN [result |-> "Ok", name |-> name, profile |-> config.profiles[name]]
        ELSE [result |-> "Err"]

\* the stored configs of the versions before default_profile, with at most
\* MaxProfiles profiles
LegacyFiles ==
    {store_file([profiles |-> profiles, default_profile |-> None]) :
        profiles \in UNION {[names -> UserProfiles] :
            names \in {s \in SUBSET ProfileName : Cardinality(s) <= MaxProfiles}}}

\* a config directory without config.json or with the config of an old
\* version
InitConfig ==
    /\ deps = [c \in Components |-> <<>>]
    /\ force = FALSE
    /\ clock = 0
    /\ component_wasm = [c \in Components |-> 0]
    /\ client_wasm = [d \in DependencyNames |-> 0]
    /\ linked_wasm = [c \in Components |-> NoFile]
    /\ store = [c \in Components |-> NoRecord]
    /\ pc = "idle"
    /\ selected = <<>>
    /\ i = 1
    /\ marker = NoMarker
    /\ action = NoAction
    /\ log = <<>>
    /\ ret = "none"
    /\ last_attempt = [c \in Components |-> "none"]
    /\ previous = NoPrevious
    /\ changes = 0
    /\ query = NoQuery
    /\ log_state = LogState_new
    /\ indent_guards = 0
    /\ entry_indents = <<>>
    /\ output_guards = [t \in Threads |-> <<>>]
    /\ creating = [t \in Threads |-> NoCreating]
    /\ initial_output = "Stdout"
    /\ config_file \in {NoConfigFile} \cup LegacyFiles
    /\ config_result = NoCall

\* Config::set_profile
SetProfile(name, profile) ==
    LET config == from_file(config_file).config
    IN  /\ name \in DOMAIN config.profiles
           \/ Cardinality(DOMAIN config.profiles) < MaxProfiles + 2
        /\ config_file' =
             store_file([config EXCEPT !.profiles = insert(@, name, profile)])
        /\ config_result' = [op |-> "set_profile", name |-> name, result |-> "Ok"]
        /\ UNCHANGED <<oracle_vars, output_vars, indent_vars, app_vars, clock,
                       file_vars, store, run_vars, last_attempt, previous, changes>>

\* Config::delete_profile
DeleteProfile(name) ==
    LET config == from_file(config_file).config
    IN  /\ config_file' = store_file([config EXCEPT !.profiles = remove(@, name)])
        /\ config_result' = [op |-> "delete_profile", name |-> name, result |-> "Ok"]
        /\ UNCHANGED <<oracle_vars, output_vars, indent_vars, app_vars, clock,
                       file_vars, store, run_vars, last_attempt, previous, changes>>

\* Config::set_active_profile_name
SetActiveProfileName(profile_name) ==
    LET loaded == from_file(config_file)
    IN  /\ IF ~contains_key(loaded.config.profiles, profile_name)
           THEN /\ config_file' = loaded.file
                /\ config_result' = [op |-> "set_active_profile_name",
                                     name |-> profile_name, result |-> "Err"]
           ELSE /\ config_file' =
                     store_file([loaded.config EXCEPT
                                    !.default_profile = Some(profile_name)])
                /\ config_result' = [op |-> "set_active_profile_name",
                                     name |-> profile_name, result |-> "Ok"]
        /\ UNCHANGED <<oracle_vars, output_vars, indent_vars, app_vars, clock,
                       file_vars, store, run_vars, last_attempt, previous, changes>>

\* Config::get_active_profile
GetActiveProfile(selected_profile) ==
    /\ config_file' = from_file(config_file).file
    /\ config_result' = [op |-> "get_active_profile",
                         selected_profile |-> selected_profile,
                         returned |-> get_active_profile(config_file, selected_profile)]
    /\ UNCHANGED <<oracle_vars, output_vars, indent_vars, app_vars, clock,
                   file_vars, store, run_vars, last_attempt, previous, changes>>

NextConfig ==
    \/ \E name \in ProfileName : \E profile \in UserProfiles : SetProfile(name, profile)
    \/ \E name \in ProfileName : DeleteProfile(name)
    \/ \E name \in ProfileName : SetActiveProfileName(name)
    \/ \E selected_profile \in {None} \cup {Some(n) : n \in ProfileName} :
           GetActiveProfile(selected_profile)

SpecConfig == InitConfig /\ [][NextConfig]_vars

\* the stored configuration, if config.json exists
Stored == deserialize(config_file.json)

\* what a load of the config directory returns now
Loaded == from_file(config_file).config

\* C25 (default profile validity): whatever set_profile, delete_profile and
\* set_active_profile_name calls were made on the config directory, a load
\* returns a default_profile that names one of the profiles it returns, and
\* so does the stored one, if stored; get_active_profile without a selected
\* profile returns a profile.
C25_DefaultProfileValid ==
    /\ Loaded.default_profile # None
    /\ Loaded.default_profile.value \in DOMAIN Loaded.profiles
    /\ (config_file.exists /\ Stored.default_profile # None) =>
           Stored.default_profile.value \in DOMAIN Loaded.profiles
    /\ get_active_profile(config_file, None).result = "Ok"

\* every load returns the profiles local and cloud and a default profile
C26_Loaded ==
    /\ {"local", "cloud"} \subseteq DOMAIN Loaded.profiles
    /\ Loaded.default_profile # None

\* delete_profile of local or cloud takes the profile out of config.json,
\* and the next load returns it with its default value
C26_DeleteStep ==
    \A n \in {"local", "cloud"} :
        (config_result'.op = "delete_profile" /\ config_result'.name = n) =>
            /\ n \notin DOMAIN Stored'.profiles
            /\ Loaded'.profiles[n] =
                 (IF n = "local" THEN DefaultLocalProfile ELSE DefaultCloudProfile)

\* C26 (built-in profiles): every configuration from_file returns, from a
\* missing file, a legacy file or a migrated one, has the profiles local
\* and cloud and a default profile; after delete_profile of local or cloud
\* the next load returns that profile again, with its default value.
C26_BuiltinProfiles ==
    /\ []C26_Loaded
    /\ [][C26_DeleteStep]_vars

\* a profile stored by the user under the name local was deleted: it is not
\* in config.json, and a load returns the default one
C26_Witness ==
    /\ config_result.op = "delete_profile"
    /\ config_result.name = "local"
    /\ config_file.exists
    /\ "local" \notin DOMAIN Stored.profiles
    /\ "local-migrated" \in DOMAIN Stored.profiles
    /\ Loaded.profiles["local"] = DefaultLocalProfile

\* config.json exists and has no default_profile: not yet migrated
Legacy == config_file.exists /\ Stored.default_profile = None

\* what the migration makes of the profiles of a legacy config: default and
\* cloud_default go, local and cloud get the names local-migrated and
\* cloud-migrated, every other profile stays
C28_MigrationOf(old, new) ==
    /\ DOMAIN new =
         (DOMAIN old \ {"default", "cloud_default", "local", "cloud"})
            \cup (IF "local" \in DOMAIN old THEN {"local-migrated"} ELSE {})
            \cup (IF "cloud" \in DOMAIN old THEN {"cloud-migrated"} ELSE {})
    /\ \A n \in DOMAIN new :
         new[n] = IF n = "local-migrated" /\ "local" \in DOMAIN old THEN old["local"]
                  ELSE IF n = "cloud-migrated" /\ "cloud" \in DOMAIN old THEN old["cloud"]
                  ELSE old[n]

\* set_active_profile_name with a name that exists: the name is stored as
\* default and get_active_profile without a selected profile returns it
C27_Existing ==
    (/\ config_result'.op = "set_active_profile_name"
     /\ config_result'.name \in DOMAIN Loaded.profiles) =>
        /\ config_result'.result = "Ok"
        /\ Stored'.default_profile = Some(config_result'.name)
        /\ get_active_profile(config_file', None) =
             [result |-> "Ok", name |-> config_result'.name,
              profile |-> Loaded.profiles[config_result'.name]]

\* C27 as stated: set_active_profile_name with a name that is not a profile
\* of the loaded configuration returns an error and leaves the stored
\* default profile and the stored profiles as they were; with a name that
\* exists it stores the name as default and get_active_profile without a
\* selected profile then returns that profile.
C27_SetActive_Original ==
    [][/\ (/\ config_result'.op = "set_active_profile_name"
           /\ config_result'.name \notin DOMAIN Loaded.profiles) =>
              /\ config_result'.result = "Err"
              /\ config_file' = config_file
       /\ C27_Existing]_vars

\* C27 as amended: set_active_profile_name with a name that is not a
\* profile of the loaded configuration returns an error and leaves the
\* stored default profile and the stored profiles as they were when
\* config.json is missing or has a default_profile; a config.json without
\* default_profile is left migrated and saved by the load; with a name that
\* exists it stores the name as default and get_active_profile without a
\* selected profile then returns that profile.
C27_SetActive ==
    [][/\ (/\ config_result'.op = "set_active_profile_name"
           /\ config_result'.name \notin DOMAIN Loaded.profiles) =>
              /\ config_result'.result = "Err"
              /\ ~Legacy => config_file' = config_file
              /\ Legacy =>
                   /\ config_file'.exists
                   /\ Stored'.default_profile = Some("local")
                   /\ C28_MigrationOf(Stored.profiles, Stored'.profiles)
       /\ C27_Existing]_vars

\* set_active_profile_name returned an error for a name that is no profile
\* of the stored, migrated config
C27_Witness ==
    /\ config_result.op = "set_active_profile_name"
    /\ config_result.result = "Err"
    /\ config_file.exists
    /\ config_result.name \notin DOMAIN Loaded.profiles
    /\ "cloud-migrated" \in DOMAIN Stored.profiles

\* a load alone: a legacy config is migrated and saved, any other file is
\* left as it is
C28_LoadStep ==
    config_result'.op = "get_active_profile" =>
        IF Legacy
        THEN /\ config_file'.exists
             /\ Stored'.default_profile = Some("local")
             /\ C28_MigrationOf(Stored.profiles, Stored'.profiles)
        ELSE config_file' = config_file

\* what is stored after a call has a default_profile, so no later load
\* migrates
C28_Once ==
    config_file'.exists => Stored'.default_profile # None

\* a profile local or cloud of a migrated config stays as it is stored
\* until the user deletes or replaces it
C28_KeepStep ==
    \A n \in {"local", "cloud"} :
        (/\ config_file.exists
         /\ ~Legacy
         /\ n \in DOMAIN Stored.profiles
         /\ ~(/\ config_result'.op \in {"delete_profile", "set_profile"}
              /\ config_result'.name = n)) =>
            /\ config_file'.exists
            /\ n \in DOMAIN Stored'.profiles
            /\ Stored'.profiles[n] = Stored.profiles[n]

\* C28 (legacy migration runs once): a load of a stored config without
\* default_profile drops the profiles default and cloud_default, renames
\* local and cloud to local-migrated and cloud-migrated, sets the default
\* to local and saves; a load of the saved config migrates nothing, and a
\* profile local or cloud stored afterwards is never renamed or dropped by
\* a load.
C28_MigrationOnce ==
    [][C28_LoadStep /\ C28_Once /\ C28_KeepStep]_vars

\* a legacy config with a profile local was migrated, the user stored a
\* profile local afterwards, and a later load left both as they were
C28_Witness ==
    /\ config_result.op = "get_active_profile"
    /\ config_file.exists
    /\ "local-migrated" \in DOMAIN Stored.profiles
    /\ "local" \in DOMAIN Stored.profiles
    /\ Stored.profiles["local"] \in UserProfiles
    /\ Stored.profiles["local"] # Stored.profiles["local-migrated"]

(* ------------------------------ LogOutput ----------------------------- *)

\* no LogOutput guard exists and none is being created
NoOutputGuard ==
    \A t \in Threads : output_guards[t] = <<>> /\ creating[t] = NoCreating

\* set_log_output, called while no guard exists
SetLogOutput(output) ==
    /\ NoOutputGuard
    /\ log_state' = set_output(log_state, output)
    /\ initial_output' = output
    /\ UNCHANGED <<oracle_vars, config_vars, indent_guards, entry_indents, output_guards,
                   creating, app_vars, clock, file_vars, store, run_vars, last_attempt,
                   previous, changes>>

\* LogOutput::new, first statement: the output is read under the read lock
LogOutputNewRead(t, output, most) ==
    /\ creating[t] = NoCreating
    /\ Len(output_guards[t]) < most
    /\ creating' = [creating EXCEPT ![t] = [step |-> "read", output |-> output,
                                            prev_output |-> log_state.output]]
    /\ UNCHANGED <<oracle_vars, config_vars, indent_vars, output_guards, initial_output,
                   app_vars, clock, file_vars, store, run_vars, last_attempt, previous,
                   changes>>

\* LogOutput::new, second statement: the output is set under the write
\* lock and the guard is returned
LogOutputNewWrite(t) ==
    /\ creating[t] # NoCreating
    /\ log_state' = set_output(log_state, creating[t].output)
    /\ output_guards' =
         [output_guards EXCEPT ![t] =
            Append(@, [prev_output |-> creating[t].prev_output])]
    /\ creating' = [creating EXCEPT ![t] = NoCreating]
    /\ UNCHANGED <<oracle_vars, config_vars, indent_guards, entry_indents, initial_output,
                   app_vars, clock, file_vars, store, run_vars, last_attempt, previous,
                   changes>>

\* drop of the youngest LogOutput guard of a thread
LogOutputDrop(t) ==
    /\ creating[t] = NoCreating
    /\ output_guards[t] # <<>>
    /\ log_state' =
         set_output(log_state, output_guards[t][Len(output_guards[t])].prev_output)
    /\ output_guards' = [output_guards EXCEPT ![t] = pop(@)]
    /\ UNCHANGED <<oracle_vars, config_vars, indent_guards, entry_indents, creating,
                   initial_output, app_vars, clock, file_vars, store, run_vars,
                   last_attempt, previous, changes>>

\* the steps of a thread that holds at most so many guards at a time
ThreadStep(t, most) ==
    \/ \E output \in Output : LogOutputNewRead(t, output, most)
    \/ LogOutputNewWrite(t)
    \/ LogOutputDrop(t)

\* one thread uses LogOutput
NextOutput ==
    \/ \E output \in Output : SetLogOutput(output)
    \/ ThreadStep("main", MaxGuards)

SpecOutput == Init /\ [][NextOutput]_vars

\* every thread uses LogOutput, with one guard at a time
NextOutputThreads ==
    \/ \E output \in Output : SetLogOutput(output)
    \/ \E t \in Threads : ThreadStep(t, 1)

SpecOutputThreads == Init /\ [][NextOutputThreads]_vars

\* a guard is created: the given output is installed, and the guard keeps
\* the output that was in effect until then
C29_NewStep ==
    \A t \in Threads :
        Len(output_guards'[t]) > Len(output_guards[t]) =>
            /\ log_state'.output = creating[t].output
            /\ output_guards'[t][Len(output_guards'[t])].prev_output = log_state.output

\* a guard is dropped: the output it kept is in effect again
C29_DropStep ==
    \A t \in Threads :
        Len(output_guards'[t]) < Len(output_guards[t]) =>
            log_state'.output = output_guards[t][Len(output_guards[t])].prev_output

\* the guards of one thread are nested: the oldest one keeps the output
\* before the first guard, and with no guard left that output is in effect
C29_Nested ==
    LET g == output_guards["main"]
    IN  /\ g # <<>> => g[1].prev_output = initial_output
        /\ (g = <<>> /\ creating["main"] = NoCreating) =>
               log_state.output = initial_output

\* C29 (scoped log output): a LogOutput guard installs the given output
\* and its drop restores the output that was in effect when it was
\* created; with the guards of one thread created and dropped in nested
\* order, the output after the last drop is the output before the first
\* guard.
C29_ScopedOutput ==
    /\ [][C29_NewStep /\ C29_DropStep]_vars
    /\ []C29_Nested

\* two nested guards of the main thread are live over an output other than
\* Stdout: the second one was created over the output the first installed
C29_Witness ==
    /\ initial_output = "Stderr"
    /\ creating["main"] = NoCreating
    /\ Len(output_guards["main"]) = 2
    /\ output_guards["main"][1].prev_output = "Stderr"
    /\ output_guards["main"][2].prev_output = "None"
    /\ log_state.output = "TracingDebug"

\* C30 (LogOutput under concurrency): two threads create LogOutput guards
\* and drop them, their lock acquisitions interleaved in any way; once no
\* guard is left and none is being created, the output is the one that was
\* in effect before the guards were created.
C30_ConcurrentOutput ==
    NoOutputGuard => log_state.output = initial_output

=============================================================================
